---- MODULE Spec2Model ----
(***************************************************************************)
(* Model of app.py: PDF text extraction, question generation from a        *)
(* completion-model response (regex scan + JSON parsing + validation),     *)
(* quiz logging into the database, and the Streamlit page that ties them.  *)
(*                                                                         *)
(* Texts are sequences of symbols.  A symbol is one character, except that *)
(* the letter "q" abbreviates the word  question  and the letter "o" the   *)
(* word  options  (the only two words the code compares against).          *)
(***************************************************************************)
EXTENDS Integers, Sequences, FiniteSets, TLC

VARIABLES
    pages,          \* extract_text_with_pdfplumber: the pages of the opened document
    text,           \* extract_text_with_pdfplumber: its return value
    llm,            \* outcome of llm.complete: [raises, text]
    generated,      \* generate_mcq_questions: [done, value]
    session,        \* st.session_state: [mcq_questions, quiz_title]
    widgets,        \* browser side: [uploaded_file, title_input, shown]
    db,             \* committed database state: [quizzes, questions, next_id]
    handles,        \* connections and cursors currently open
    lastLog         \* trace of the last log_quiz_data call

vars == <<pages, text, llm, generated, session, widgets, db, handles, lastLog>>

(***************************************************************************)
(* Python values (the result of json.loads, and the literals of the code). *)
(***************************************************************************)
None == [type |-> "None", val |-> <<>>, items |-> <<>>]
JNum(digits) == [type |-> "int", val |-> digits, items |-> <<>>]
JStr(chars) == [type |-> "str", val |-> chars, items |-> <<>>]
JList(items) == [type |-> "list", val |-> <<>>, items |-> items]
\* a dict is its items in insertion order, each [k |-> key, v |-> value]
JDict(pairs) == [type |-> "dict", val |-> <<>>, items |-> pairs]

QuestionKey == <<"q">>
OptionsKey == <<"o">>

Keys(d) == {d.items[i].k : i \in 1..Len(d.items)}
Lookup(d, key) == LET i == CHOOSE j \in 1..Len(d.items) : d.items[j].k = key
                  IN d.items[i].v

\* dict construction from the parsed pairs: a repeated key keeps its first
\* position and takes the last value
RECURSIVE DictSet(_, _, _)
DictSet(pairs, k, v) ==
    IF pairs = <<>> THEN <<[k |-> k, v |-> v]>>
    ELSE IF Head(pairs).k = k THEN <<[k |-> k, v |-> v]>> \o Tail(pairs)
    ELSE <<Head(pairs)>> \o DictSet(Tail(pairs), k, v)

\* bool(x) for the values the page tests for truthiness
Truthy(x) ==
    CASE x.type = "None" -> FALSE
      [] x.type = "list" -> x.items # <<>>
      [] x.type = "dict" -> x.items # <<>>
      [] x.type = "str" -> x.val # <<>>
      [] OTHER -> TRUE

(***************************************************************************)
(* re.findall(r'\[\s*\{.*?\}\s*\]', text, re.DOTALL)                       *)
(***************************************************************************)
Whitespace == {" ", "\n"}

\* \s* is greedy and the symbol after it is never whitespace: skip it all
RECURSIVE SkipWs(_, _)
SkipWs(s, i) == IF i <= Len(s) /\ s[i] \in Whitespace THEN SkipWs(s, i + 1) ELSE i

At(s, i, c) == i <= Len(s) /\ s[i] = c

\* \[\s*\{ matched at i: the index after the brace, else 0
OpenAt(s, i) ==
    IF At(s, i, "[") /\ At(s, SkipWs(s, i + 1), "{") THEN SkipWs(s, i + 1) + 1 ELSE 0

\* \}\s*\] matched at j: the index of the closing bracket, else 0
CloseAt(s, j) ==
    IF At(s, j, "}") /\ At(s, SkipWs(s, j + 1), "]") THEN SkipWs(s, j + 1) ELSE 0

Least(S) == CHOOSE x \in S : \A y \in S : x <= y

\* .*?\}\s*\] from b on: the lazy dot stops at the first place where the rest
\* matches (DOTALL: every symbol, newline included, is matched by the dot)
LazyEnd(s, closes) == IF closes = {} THEN 0 ELSE CloseAt(s, Least(closes))

BodyEnd(s, b) ==
    IF b = 0 THEN 0 ELSE LazyEnd(s, {j \in b..Len(s) : CloseAt(s, j) # 0})

\* the whole pattern matched at i: the index of its last symbol, else 0
MatchEnd(s, i) == BodyEnd(s, OpenAt(s, i))

\* non-overlapping matches, left to right: the scan resumes after each match
RECURSIVE FindAllFrom(_, _)
TakeMatch(s, k, e) == <<SubSeq(s, k, e)>> \o FindAllFrom(s, e + 1)
NextMatch(s, starts) ==
    IF starts = {} THEN <<>> ELSE TakeMatch(s, Least(starts), MatchEnd(s, Least(starts)))
FindAllFrom(s, i) == NextMatch(s, {k \in i..Len(s) : MatchEnd(s, k) # 0})

FindAll(s) == FindAllFrom(s, 1)

(***************************************************************************)
(* json.loads(match): strict JSON over the symbols.  A result is           *)
(* [ok, v, next]; ok = FALSE stands for json.JSONDecodeError.              *)
(***************************************************************************)
Digits == {"1"}

DecodeError == [ok |-> FALSE, v |-> None, next |-> 0]
Parsed(v, next) == [ok |-> TRUE, v |-> v, next |-> next]

\* the string from the opening quote at i to the closing quote at j; a raw
\* newline inside it is an invalid control character
StringTo(s, i, j) ==
    IF \E k \in (i + 1)..(j - 1) : s[k] = "\n" THEN DecodeError
    ELSE Parsed(JStr(SubSeq(s, i + 1, j - 1)), j + 1)

StringAmong(s, i, quotes) ==
    IF quotes = {} THEN DecodeError ELSE StringTo(s, i, Least(quotes))

\* s[i] is the opening quote; the string ends at the next quote
ParseString(s, i) == StringAmong(s, i, {j \in (i + 1)..Len(s) : s[j] = "\""})

RECURSIVE SkipDigits(_, _)
SkipDigits(s, i) == IF i <= Len(s) /\ s[i] \in Digits THEN SkipDigits(s, i + 1) ELSE i

NumberTo(s, i, e) == Parsed(JNum(SubSeq(s, i, e - 1)), e)
ParseNumber(s, i) == NumberTo(s, i, SkipDigits(s, i))

RECURSIVE ParseValue(_, _)
RECURSIVE ParseElems(_, _, _)
RECURSIVE ParseMembers(_, _, _)

\* after an element: a comma and the next element, or the closing bracket
ElemSep(s, acc, e) ==
    IF At(s, e, ",") THEN ParseElems(s, SkipWs(s, e + 1), acc)
    ELSE IF At(s, e, "]") THEN Parsed(JList(acc), e + 1)
    ELSE DecodeError

AfterElem(s, acc, r) ==
    IF ~r.ok THEN DecodeError ELSE ElemSep(s, Append(acc, r.v), SkipWs(s, r.next))

\* the elements of an array from i on, acc holding those parsed so far
ParseElems(s, i, acc) == AfterElem(s, acc, ParseValue(s, i))

\* after a member: a comma and the next member, or the closing brace
MemberSep(s, acc, e) ==
    IF At(s, e, ",") THEN ParseMembers(s, SkipWs(s, e + 1), acc)
    ELSE IF At(s, e, "}") THEN Parsed(JDict(acc), e + 1)
    ELSE DecodeError

AfterMember(s, acc, key, r) ==
    IF ~r.ok THEN DecodeError ELSE MemberSep(s, DictSet(acc, key, r.v), SkipWs(s, r.next))

AfterColon(s, acc, key, c) ==
    IF ~At(s, c, ":") THEN DecodeError
    ELSE AfterMember(s, acc, key, ParseValue(s, SkipWs(s, c + 1)))

AfterKey(s, acc, k) ==
    IF ~k.ok THEN DecodeError ELSE AfterColon(s, acc, k.v.val, SkipWs(s, k.next))

\* the members of an object from i on, acc holding those parsed so far
ParseMembers(s, i, acc) ==
    IF ~At(s, i, "\"") THEN DecodeError ELSE AfterKey(s, acc, ParseString(s, i))

\* j is the first index after the opening bracket and the whitespace
ArrayFrom(s, j) ==
    IF At(s, j, "]") THEN Parsed(JList(<<>>), j + 1) ELSE ParseElems(s, j, <<>>)

ObjectFrom(s, j) ==
    IF At(s, j, "}") THEN Parsed(JDict(<<>>), j + 1) ELSE ParseMembers(s, j, <<>>)

ParseValue(s, i) ==
    IF i > Len(s) THEN DecodeError
    ELSE IF s[i] = "\"" THEN ParseString(s, i)
    ELSE IF s[i] \in Digits THEN ParseNumber(s, i)
    ELSE IF s[i] = "[" THEN ArrayFrom(s, SkipWs(s, i + 1))
    ELSE IF s[i] = "{" THEN ObjectFrom(s, SkipWs(s, i + 1))
    ELSE DecodeError

\* one document, nothing but whitespace after it ("Extra data" otherwise)
WholeDocument(s, r) == IF r.ok /\ SkipWs(s, r.next) > Len(s) THEN r ELSE DecodeError

JsonLoads(s) == WholeDocument(s, ParseValue(s, SkipWs(s, 1)))

(***************************************************************************)
(* The structure check of extract_json and generate_mcq_questions.         *)
(***************************************************************************)
RequiredCount == 5

\* Python's  key in x ; "TypeError" when x supports no membership test
Contains(x, key) ==
    CASE x.type = "dict" -> IF key \in Keys(x) THEN "True" ELSE "False"
      [] x.type = "list" -> IF \E i \in 1..Len(x.items) : x.items[i] = JStr(key)
                            THEN "True" ELSE "False"
      [] x.type = "str" -> IF \E i \in 1..Len(x.val) :
                                 i + Len(key) - 1 <= Len(x.val)
                                 /\ SubSeq(x.val, i, i + Len(key) - 1) = key
                            THEN "True" ELSE "False"
      [] OTHER -> "TypeError"

\* a and b, b being evaluated only when a is true
AndThen(a, q, key) == IF a = "True" THEN Contains(q, key) ELSE a

\* 'question' in q and 'options' in q
HasBothKeys(q) == AndThen(Contains(q, QuestionKey), q, OptionsKey)

\* all(... for q in questions): stops at the first element that is not true
RECURSIVE AllHaveKeys(_)
AllAfter(h, rest) == IF h = "True" THEN AllHaveKeys(rest) ELSE h
AllHaveKeys(items) ==
    IF items = <<>> THEN "True" ELSE AllAfter(HasBothKeys(Head(items)), Tail(items))

\* isinstance(questions, list) and len(questions) == 5 and all(...)
Validate(questions) ==
    IF questions.type # "list" THEN "False"
    ELSE IF Len(questions.items) # RequiredCount THEN "False"
    ELSE AllHaveKeys(questions.items)

\* the loop over json_matches: [exc, value]; value None when no match passes.
\* A JSONDecodeError continues with the next match, any other exception
\* leaves the loop
RECURSIVE ScanMatches(_)
Judge(rest, r, ok) ==
    IF ok = "True" THEN [exc |-> "", value |-> r.v]
    ELSE IF ok = "TypeError" THEN [exc |-> "TypeError", value |-> None]
    ELSE ScanMatches(rest)
TryMatch(rest, r) == Judge(rest, r, IF r.ok THEN Validate(r.v) ELSE "False")
ScanMatches(matches) ==
    IF matches = <<>> THEN [exc |-> "", value |-> None]
    ELSE TryMatch(Tail(matches), JsonLoads(Head(matches)))

extract_json(s) == ScanMatches(FindAll(s))

Placeholder(i) ==
    JDict(<<[k |-> QuestionKey, v |-> JStr(<<"How would you approach problem ", ToString(i), "?">>)],
            [k |-> OptionsKey,
             v |-> JList(<<JStr(<<"Approach A">>), JStr(<<"Approach B">>),
                           JStr(<<"Approach C">>), JStr(<<"Approach D">>)>>)]>>)

Placeholders == JList([i \in 1..RequiredCount |-> Placeholder(i)])

\* what follows parsed_questions = extract_json(response.text): the parsed
\* list if it is truthy, the placeholders otherwise; an exception raised in
\* the try block ends in the except clause, which returns []
ResultOf(parsed) ==
    IF parsed.exc # "" THEN JList(<<>>)
    ELSE IF Truthy(parsed.value) THEN parsed.value
    ELSE Placeholders

\* (mutant) the placeholders returned when the completion call fails
generate_mcq_questions_FallbackOnError(outcome) ==
    IF outcome.raises THEN Placeholders ELSE ResultOf(extract_json(outcome.text))

\* generate_mcq_questions, given what llm.complete did
generate_mcq_questions(outcome) ==
    IF outcome.raises THEN JList(<<>>) ELSE ResultOf(extract_json(outcome.text))

(***************************************************************************)
(* extract_text_with_pdfplumber                                            *)
(***************************************************************************)
\* page.extract_text() or ""
OrEmpty(x) == IF Truthy(x) THEN x.val ELSE <<>>

\* (mutant) the page text assigned instead of appended
ExtractLoop_Assigns(pgs, acc) ==
    IF pgs = <<>> THEN acc ELSE OrEmpty(pgs[Len(pgs)])

\* the loop over pdf.pages, acc being the text so far
RECURSIVE ExtractLoop(_, _)
ExtractLoop(pgs, acc) ==
    IF pgs = <<>> THEN acc
    ELSE ExtractLoop(Tail(pgs), acc \o OrEmpty(Head(pgs)))

extract_text_with_pdfplumber(pgs) == JStr(ExtractLoop(pgs, <<>>))

MaxPages == 3

\* what page.extract_text() may yield for one page
PageTexts == {None, JStr(<<>>), JStr(<<"a">>), JStr(<<"b", "c">>)}

RECURSIVE PageSeqs(_)
PageSeqs(n) ==
    IF n = 0 THEN {<<>>}
    ELSE PageSeqs(n - 1) \cup {Append(p, t) : p \in PageSeqs(n - 1), t \in PageTexts}


(***************************************************************************)
(* log_quiz_data.  The database driver is the environment: connect,        *)
(* cursor(), every execute and commit may raise psycopg2.Error (fault      *)
(* names the step that does in this call); rows executed but not committed *)
(* are discarded when the connection closes.                               *)
(***************************************************************************)
\* x[i] in Python, i counted from 0: [exc, v]
Subscript(x, i) ==
    CASE x.type = "list" ->
            IF i < Len(x.items) THEN [exc |-> "", v |-> x.items[i + 1]]
            ELSE [exc |-> "IndexError", v |-> None]
      [] x.type = "str" ->
            IF i < Len(x.val) THEN [exc |-> "", v |-> JStr(<<x.val[i + 1]>>)]
            ELSE [exc |-> "IndexError", v |-> None]
      [] x.type = "dict" -> [exc |-> "KeyError", v |-> None]
      [] OTHER -> [exc |-> "TypeError", v |-> None]

\* the first exception of the four subscripts, "" for none
FirstExc(a, b, c, d) ==
    IF a.exc # "" THEN a.exc
    ELSE IF b.exc # "" THEN b.exc
    ELSE IF c.exc # "" THEN c.exc
    ELSE d.exc

\* the tuple once question.get('question', '') and question['options'] are
\* evaluated, the four subscripts being taken in order
ArgsOf(quiz_id, text_, a, b, c, d) ==
    [exc |-> FirstExc(a, b, c, d),
     row |-> [quiz_id |-> quiz_id, question |-> text_,
              option_a |-> a.v, option_b |-> b.v, option_c |-> c.v, option_d |-> d.v]]

NoRow(exc) ==
    [exc |-> exc,
     row |-> [quiz_id |-> 0, question |-> None,
              option_a |-> None, option_b |-> None, option_c |-> None, option_d |-> None]]

\* (mutant) the last two options in each other's column
OptionArgs_Swapped(quiz_id, text_, opts) ==
    ArgsOf(quiz_id, text_, Subscript(opts, 0), Subscript(opts, 1),
           Subscript(opts, 3), Subscript(opts, 2))

OptionArgs(quiz_id, text_, opts) ==
    ArgsOf(quiz_id, text_, Subscript(opts, 0), Subscript(opts, 1),
           Subscript(opts, 2), Subscript(opts, 3))

\* the parameter tuple of the INSERT INTO questions, built before execute is
\* called: [exc, row].  question.get needs a dict (AttributeError otherwise),
\* question['options'] needs the key (KeyError otherwise)
QuestionArgs(quiz_id, question) ==
    IF question.type # "dict" THEN NoRow("AttributeError")
    ELSE IF OptionsKey \notin Keys(question) THEN NoRow("KeyError")
    ELSE OptionArgs(quiz_id,
                    IF QuestionKey \in Keys(question) THEN Lookup(question, QuestionKey)
                    ELSE JStr(<<>>),
                    Lookup(question, OptionsKey))

\* the driver cannot adapt a dict parameter: psycopg2.ProgrammingError
Adaptable(row) ==
    \A v \in {row.question, row.option_a, row.option_b, row.option_c, row.option_d} :
        v.type # "dict"

\* for question in questions: cursor.execute(INSERT ...), from the i-th on;
\* rows are those executed so far: [exc, rows]
RECURSIVE InsertQuestions(_, _, _, _, _)
RECURSIVE InsertOne(_, _, _, _, _, _)

\* one iteration, args being the parameter tuple of its execute
InsertOne(quiz_id, questions, i, rows, fault, args) ==
    IF args.exc # "" THEN [exc |-> args.exc, rows |-> rows]
    ELSE IF fault = [step |-> "question", index |-> i] \/ ~Adaptable(args.row)
         THEN [exc |-> "psycopg2.Error", rows |-> rows]
    ELSE InsertQuestions(quiz_id, questions, i + 1, Append(rows, args.row), fault)

InsertQuestions(quiz_id, questions, i, rows, fault) ==
    IF i > Len(questions) THEN [exc |-> "", rows |-> rows]
    ELSE InsertOne(quiz_id, questions, i, rows, fault, QuestionArgs(quiz_id, questions[i]))

Raised(exc, locals, quizzes, rows) ==
    [exc |-> exc, locals |-> locals, committed |-> FALSE, quizzes |-> quizzes, rows |-> rows]

\* (mutant) the commit moved into the finally block: it runs whatever the
\* loop did
CommitAfter_InFinally(quiz, loop, fault) ==
    IF fault.step = "commit"
    THEN Raised("psycopg2.Error", {"conn", "cursor"}, quiz, loop.rows)
    ELSE [exc |-> loop.exc, locals |-> {"conn", "cursor"}, committed |-> TRUE,
          quizzes |-> quiz, rows |-> loop.rows]

\* conn.commit() after the loop ended with loop = [exc, rows]
CommitAfter(quiz, loop, fault) ==
    IF loop.exc # "" THEN Raised(loop.exc, {"conn", "cursor"}, quiz, loop.rows)
    ELSE IF fault.step = "commit"
         THEN Raised("psycopg2.Error", {"conn", "cursor"}, quiz, loop.rows)
    ELSE [exc |-> "", locals |-> {"conn", "cursor"}, committed |-> TRUE,
          quizzes |-> quiz, rows |-> loop.rows]

\* the body of the try block up to the commit: the exception it ends with
\* ("" for none), the local names bound, and the rows of the transaction
TryBody(title, questions, fault, next_id) ==
    IF fault.step = "connect" THEN Raised("psycopg2.Error", {}, <<>>, <<>>)
    ELSE IF fault.step = "cursor" THEN Raised("psycopg2.Error", {"conn"}, <<>>, <<>>)
    ELSE IF fault.step = "quiz" THEN Raised("psycopg2.Error", {"conn", "cursor"}, <<>>, <<>>)
    ELSE CommitAfter(<<[id |-> next_id, title |-> title]>>,
                     InsertQuestions(next_id, questions.items, 1, <<>>, fault), fault)

\* (mutant) the except Exception clause missing: other exceptions propagate
\* and the call returns nothing
ReturnValue_NoGenericExcept(exc) ==
    CASE exc = "" -> "True"
      [] exc = "psycopg2.Error" -> "False"
      [] OTHER -> "none"

\* return True after the commit; except psycopg2.Error and except Exception
\* both return False
ReturnValue(exc) ==
    CASE exc = "" -> "True"
      [] exc = "psycopg2.Error" -> "False"
      [] OTHER -> "False"

\* (mutant) the connection never closed
FinallyClose_CursorOnly(locals) == IF "cursor" \in locals THEN <<"cursor">> ELSE <<>>

\* finally: close what the locals hold, the cursor first
FinallyClose(locals) ==
    (IF "cursor" \in locals THEN <<"cursor">> ELSE <<>>)
    \o (IF "conn" \in locals THEN <<"conn">> ELSE <<>>)

\* the except clauses, the return and the finally block, body being what the
\* try block did: the trace of the call and the database state it leaves
Outcome(title, questions, fault, d, body) ==
    [trace |-> [called |-> TRUE, title |-> title, questions |-> questions,
                fault |-> fault, exc |-> body.exc, ret |-> ReturnValue(body.exc),
                committed |-> body.committed, inserted |-> Len(body.rows),
                opened |-> body.locals, closed |-> FinallyClose(body.locals)],
     db |-> [quizzes |-> IF body.committed THEN d.quizzes \o body.quizzes ELSE d.quizzes,
             questions |-> IF body.committed THEN d.questions \o body.rows ELSE d.questions,
             \* the id sequence advances with the insert, committed or not
             next_id |-> d.next_id + Len(body.quizzes)]]

log_quiz_data(title, questions, fault, d) ==
    Outcome(title, questions, fault, d, TryBody(title, questions, fault, d.next_id))

(***************************************************************************)
(* Response texts the completion model may return: up to MaxSegments       *)
(* segments, each one piece of JSON-like text or prose.                    *)
(***************************************************************************)
MaxSegments == 2

RECURSIVE Join(_, _)
Join(parts, sep) ==
    IF parts = <<>> THEN <<>>
    ELSE IF Len(parts) = 1 THEN parts[1]
    ELSE parts[1] \o sep \o Join(Tail(parts), sep)

Quoted(chars) == <<"\"">> \o chars \o <<"\"">>
Member(key, value) == Quoted(key) \o <<":">> \o value
ObjText(members) == <<"{">> \o Join(members, <<",">>) \o <<"}">>
ArrText(elems) == <<"[">> \o Join(elems, <<",">>) \o <<"]">>
QText(qv, ov) == ObjText(<<Member(QuestionKey, qv), Member(OptionsKey, ov)>>)
Repeat(x, n) == [i \in 1..n |-> x]

One == <<"1">>
Plain == QText(One, One)

SegGood == ArrText(Repeat(Plain, RequiredCount))
\* the same shape with whitespace and newlines around the brackets, string
\* question texts and empty option lists
SegGoodSpaced ==
    <<"[", "\n", " ">>
    \o Join(Repeat(QText(Quoted(<<"a">>), <<"[", "]">>), RequiredCount), <<",", "\n">>)
    \o <<"\n", "]">>
SegShort == ArrText(Repeat(Plain, RequiredCount - 1))
SegLong == ArrText(Repeat(Plain, RequiredCount + 1))
\* one element without the options key
SegNoOptions ==
    ArrText(<<Plain, Plain, ObjText(<<Member(QuestionKey, One)>>), Plain, Plain>>)
\* five well-formed questions, the first with a list of objects as options
SegNested ==
    ArrText(<<QText(One, <<"[", "{", "}", "]">>)>> \o Repeat(Plain, RequiredCount - 1))
\* five elements, some of them numbers
SegInt == ArrText(<<Plain, One, One, One, <<"{", "}">> >>)
SegOpen == <<"[", "{">>
SegProse == <<"a", " ", "q", ":">>
SegBroken == <<"[", "{", "a", "}", "]">>

Segments == {SegGood, SegGoodSpaced, SegShort, SegLong, SegNoOptions, SegNested,
             SegInt, SegOpen, SegProse, SegBroken}

RECURSIVE TextsOf(_)
TextsOf(n) ==
    IF n = 0 THEN {<<>>}
    ELSE TextsOf(n - 1) \cup {t \o g : t \in TextsOf(n - 1), g \in Segments}

Responses == TextsOf(MaxSegments)

LlmOutcomes ==
    {[raises |-> TRUE, text |-> <<>>]} \cup {[raises |-> FALSE, text |-> t] : t \in Responses}

NotGenerated == [done |-> FALSE, value |-> None]
NoCall == [raises |-> FALSE, text |-> <<>>]
NoFault == [step |-> "none", index |-> 0]
NoLog == [called |-> FALSE, title |-> "", questions |-> None, fault |-> NoFault,
          exc |-> "", ret |-> "", committed |-> FALSE, inserted |-> 0,
          opened |-> {}, closed |-> <<>>]

PageIdle ==
    /\ session = [mcq_questions |-> None, quiz_title |-> ""]
    /\ widgets = [uploaded_file |-> None, title_input |-> "", shown |-> {}, clicked |-> ""]
    /\ db = [quizzes |-> <<>>, questions |-> <<>>, next_id |-> 1]
    /\ handles = {}
    /\ lastLog = NoLog

(***************************************************************************)
(* main(): Streamlit runs it from the top after every user interaction.    *)
(***************************************************************************)
MaxQuizIds == 2

PdfFile(pgs) == [type |-> "file", val |-> <<"pdf">>, items |-> pgs]
\* a file pdfplumber.open cannot read
Malformed == [type |-> "file", val |-> <<"malformed">>, items |-> <<>>]
UploadedFiles == {PdfFile(<<JStr(<<"a">>), None>>), Malformed}

Titles == {"", "Sample", "Quiz B"}

Options4 == <<"[", "1", ",", "1", "1", ",", "\"", "a", "\"", ",", "\"", "o", "\"", "]">>
Options2 == <<"[", "1", ",", "1", "1", "]">>
\* five questions with four options each
UiGood == ArrText(Repeat(QText(Quoted(<<"a">>), Options4), RequiredCount))
\* the same, the third question with two options only
UiFewOptions ==
    ArrText(<<QText(One, Options4), QText(One, Options4), QText(One, Options2),
              QText(One, Options4), QText(One, Options4)>>)

\* five elements that are lists naming both keys: they pass the structure
\* check although none is an object
UiLists ==
    ArrText(<<QText(One, Options4)>>
            \o Repeat(<<"[">> \o Quoted(QuestionKey) \o <<",">> \o Quoted(OptionsKey) \o <<"]">>,
                      RequiredCount - 2)
            \o <<QText(One, Options4)>>)

UiOutcomes ==
    {[raises |-> TRUE, text |-> <<>>]}
    \cup {[raises |-> FALSE, text |-> t] :
            t \in {UiGood, UiFewOptions, UiLists, SegGood, SegGoodSpaced, SegInt, SegBroken}}

\* generate_mcq_questions(extracted_text) for each of these outcomes,
\* evaluated once
Generated == [outcome \in UiOutcomes |-> generate_mcq_questions(outcome)]

Faults ==
    {NoFault}
    \cup {[step |-> st, index |-> 0] : st \in {"connect", "cursor", "quiz", "commit"}}
    \cup {[step |-> "question", index |-> i] : i \in 1..RequiredCount}

Cleared == [mcq_questions |-> None, quiz_title |-> ""]

\* (mutant) the result stored without the test for emptiness
StoreGenerated_Unchecked(ss, mcq_questions) == [ss EXCEPT !.mcq_questions = mcq_questions]

\* if mcq_questions: st.session_state.mcq_questions = mcq_questions
StoreGenerated(ss, mcq_questions) ==
    IF Truthy(mcq_questions) THEN [ss EXCEPT !.mcq_questions = mcq_questions] ELSE ss

\* if st.session_state.quiz_title and st.session_state.mcq_questions
ShouldLog(ss) == ss.quiz_title # "" /\ Truthy(ss.mcq_questions)

\* if success: clear the session state
AfterLog(ss, ret) == IF ret = "True" THEN Cleared ELSE ss

\* One run of main() with the widget values of the browser: clicked names the
\* button pressed ("" for none), outcome what llm.complete does if called,
\* fault what the database does if called.
Rerun(file, title_input, clicked, outcome, fault) ==
    \E opened \in {file # None /\ file.val = <<"pdf">>} :
    \E generates \in {opened /\ clicked = "generate"} :
    \E mcq_questions \in {IF generates THEN Generated[outcome] ELSE None} :
    \E afterGen \in {IF generates THEN StoreGenerated(session, mcq_questions) ELSE session} :
    \E details \in {opened /\ Truthy(afterGen.mcq_questions)} :
    \E titled \in {IF details THEN [afterGen EXCEPT !.quiz_title = title_input]
                   ELSE afterGen} :
    \E logs \in {details /\ clicked = "log" /\ ShouldLog(titled)} :
    \E call \in {IF logs
                 THEN log_quiz_data(titled.quiz_title, titled.mcq_questions, fault, db)
                 ELSE [trace |-> NoLog, db |-> db]} :
       /\ pages' = IF opened THEN file.items ELSE <<>>
       /\ text' = IF opened THEN extract_text_with_pdfplumber(file.items) ELSE None
       /\ llm' = IF generates THEN outcome ELSE NoCall
       /\ generated' = IF generates THEN [done |-> TRUE, value |-> mcq_questions]
                       ELSE NotGenerated
       /\ session' = IF logs THEN AfterLog(titled, call.trace.ret) ELSE titled
       /\ widgets' = [uploaded_file |-> file,
                      title_input |-> IF details THEN title_input ELSE "",
                      shown |-> (IF opened THEN {"generate"} ELSE {})
                                \cup (IF details THEN {"details"} ELSE {}),
                      clicked |-> clicked]
       /\ db' = call.db
       /\ lastLog' = call.trace
       /\ handles' = (handles \cup call.trace.opened)
                     \ {call.trace.closed[i] : i \in 1..Len(call.trace.closed)}

Upload ==
    \E f \in UploadedFiles :
        /\ f # widgets.uploaded_file
        /\ Rerun(f, widgets.title_input, "", NoCall, NoFault)

RemoveFile ==
    /\ widgets.uploaded_file # None
    /\ Rerun(None, widgets.title_input, "", NoCall, NoFault)

ClickGenerate ==
    /\ "generate" \in widgets.shown
    /\ \E outcome \in UiOutcomes :
          Rerun(widgets.uploaded_file, widgets.title_input, "generate", outcome, NoFault)

EditTitle ==
    /\ "details" \in widgets.shown
    /\ \E t \in Titles :
          /\ t # widgets.title_input
          /\ Rerun(widgets.uploaded_file, t, "", NoCall, NoFault)

ClickLog ==
    /\ "details" \in widgets.shown
    /\ db.next_id <= MaxQuizIds
    /\ \E fault \in Faults :
          Rerun(widgets.uploaded_file, widgets.title_input, "log", NoCall, fault)

Init ==
    /\ pages = <<>>
    /\ text = None
    /\ llm = NoCall
    /\ generated = NotGenerated
    /\ PageIdle

Next == Upload \/ RemoveFile \/ ClickGenerate \/ EditTitle \/ ClickLog

Spec == Init /\ [][Next]_vars

(***************************************************************************)
(* Claims about log_quiz_data and the page (checked under Spec).           *)
(***************************************************************************)
SetOf(seq) == {seq[i] : i \in 1..Len(seq)}

OptionsOf(q) == Lookup(q, OptionsKey)

HasOptionList(q) ==
    q.type = "dict" /\ OptionsKey \in Keys(q) /\ OptionsOf(q).type = "list"

\* 5 questions, each with exactly 4 options
FiveWithFour(qs) ==
    /\ qs.type = "list"
    /\ Len(qs.items) = 5
    /\ \A i \in 1..5 : HasOptionList(qs.items[i]) /\ Len(OptionsOf(qs.items[i]).items) = 4

\* C4: a call with a title and 5 questions of exactly 4 options each, without
\* database error, returns True and commits exactly one new quizzes row with
\* that title and a fresh id, and exactly 5 new questions rows carrying that
\* id, options[0..3] in option_a..option_d.
C4_LoggedRows ==
    [][(/\ lastLog'.called
        /\ FiveWithFour(lastLog'.questions)
        /\ lastLog'.exc # "psycopg2.Error")
       => /\ lastLog'.ret = "True"
          /\ Len(db'.quizzes) = Len(db.quizzes) + 1
          /\ SubSeq(db'.quizzes, 1, Len(db.quizzes)) = db.quizzes
          /\ db'.quizzes[Len(db'.quizzes)].title = lastLog'.title
          /\ \A k \in 1..Len(db.quizzes) :
                db.quizzes[k].id # db'.quizzes[Len(db'.quizzes)].id
          /\ Len(db'.questions) = Len(db.questions) + 5
          /\ SubSeq(db'.questions, 1, Len(db.questions)) = db.questions
          /\ \A i \in 1..5 :
                /\ db'.questions[Len(db.questions) + i].quiz_id
                      = db'.quizzes[Len(db'.quizzes)].id
                /\ db'.questions[Len(db.questions) + i].option_a
                      = OptionsOf(lastLog'.questions.items[i]).items[1]
                /\ db'.questions[Len(db.questions) + i].option_b
                      = OptionsOf(lastLog'.questions.items[i]).items[2]
                /\ db'.questions[Len(db.questions) + i].option_c
                      = OptionsOf(lastLog'.questions.items[i]).items[3]
                /\ db'.questions[Len(db.questions) + i].option_d
                      = OptionsOf(lastLog'.questions.items[i]).items[4]]_vars

C4_Witness ==
    /\ lastLog.called
    /\ FiveWithFour(lastLog.questions)
    /\ lastLog.fault = NoFault
    /\ lastLog.title = "Sample"
    /\ Len(db.quizzes) = 2
    /\ Len(db.questions) = 10

\* the questions whose options list has fewer than 4 entries
Short(qs) ==
    {i \in 1..Len(qs.items) :
        HasOptionList(qs.items[i]) /\ Len(OptionsOf(qs.items[i]).items) < 4}

\* C5: a call with a question whose options has fewer than 4 entries ends in
\* an error, returns False, never commits and leaves the committed tables as
\* they were; no row is executed for that question, and when the loop gets
\* to it the error is the IndexError of the missing option.
C5_ShortOptionsNotCommitted ==
    [][(lastLog'.called /\ Short(lastLog'.questions) # {})
       => /\ lastLog'.exc # ""
          /\ lastLog'.ret = "False"
          /\ ~lastLog'.committed
          /\ lastLog'.inserted < Least(Short(lastLog'.questions))
          /\ (lastLog'.fault = NoFault
              /\ lastLog'.inserted = Least(Short(lastLog'.questions)) - 1)
                => lastLog'.exc = "IndexError"
          /\ db'.quizzes = db.quizzes
          /\ db'.questions = db.questions]_vars

C5_Witness ==
    /\ lastLog.called
    /\ Short(lastLog.questions) = {3}
    /\ lastLog.exc = "IndexError"
    /\ lastLog.inserted = 2
    /\ lastLog.ret = "False"
    /\ db.quizzes # <<>>

\* C6: the call returns True or False and nothing else; True exactly when
\* the commit was executed, False whenever connect, an insert or the commit
\* raised.
C6_ReturnsBoolean ==
    lastLog.called =>
        /\ lastLog.ret \in {"True", "False"}
        /\ (lastLog.ret = "True") <=> lastLog.committed
        /\ (lastLog.exc # "" \/ lastLog.fault # NoFault) => lastLog.ret = "False"

C6_Witness ==
    /\ lastLog.called
    /\ lastLog.fault.step = "commit"
    /\ lastLog.exc = "psycopg2.Error"
    /\ lastLog.inserted = 5
    /\ lastLog.ret = "False"

\* C7: after every call each connection and cursor it opened has been
\* closed, close was attempted on nothing else, and no handle stays open.
C7_HandlesClosed ==
    /\ handles = {}
    /\ lastLog.called =>
          /\ lastLog.opened \subseteq SetOf(lastLog.closed)
          /\ SetOf(lastLog.closed) \subseteq lastLog.opened
          /\ Len(lastLog.closed) = Cardinality(lastLog.opened)

C7_Witness ==
    /\ lastLog.called
    /\ lastLog.fault.step = "cursor"
    /\ lastLog.opened = {"conn"}
    /\ lastLog.closed = <<"conn">>

\* C8: when the completion call raises, generate_mcq_questions returns the
\* empty list and the stored question set stays what it was.
C8_CompletionFailure ==
    [][(generated'.done /\ llm'.raises)
       => /\ generated'.value = JList(<<>>)
          /\ session'.mcq_questions = session.mcq_questions]_vars

C8_Witness ==
    /\ generated.done
    /\ llm.raises
    /\ generated.value = JList(<<>>)
    /\ session.mcq_questions = Placeholders

\* C10: the stored question set changes only by a generation that returned a
\* non-empty list (which overwrites it) or by a Log Quiz whose call returned
\* True (which clears it and the title); an empty generation, a Log Quiz
\* without call or with a call that did not return True leave it unchanged;
\* every call gets a non-empty title and the non-empty stored question set.
C10_SessionFrame ==
    [][/\ (session'.mcq_questions # session.mcq_questions)
            => \/ /\ generated'.done
                  /\ generated'.value.items # <<>>
                  /\ session'.mcq_questions = generated'.value
               \/ /\ lastLog'.called
                  /\ lastLog'.ret = "True"
                  /\ session' = [mcq_questions |-> None, quiz_title |-> ""]
       /\ (generated'.done /\ generated'.value.items = <<>>)
            => session'.mcq_questions = session.mcq_questions
       /\ (widgets'.clicked = "log" /\ (~lastLog'.called \/ lastLog'.ret # "True"))
            => session'.mcq_questions = session.mcq_questions
       /\ lastLog'.called
            => /\ lastLog'.title # ""
               /\ lastLog'.questions = session.mcq_questions
               /\ lastLog'.questions.type = "list"
               /\ lastLog'.questions.items # <<>>]_vars

C10_Witness ==
    /\ widgets.clicked = "log"
    /\ lastLog.called
    /\ lastLog.ret = "True"
    /\ session = [mcq_questions |-> None, quiz_title |-> ""]
    /\ "details" \in widgets.shown

(***************************************************************************)
(* SpecText: extract_text_with_pdfplumber applied to every bounded         *)
(* document.                                                               *)
(***************************************************************************)
InitText ==
    /\ pages \in PageSeqs(MaxPages)
    /\ text = None
    /\ llm = NoCall
    /\ generated = NotGenerated
    /\ PageIdle

ExtractText ==
    /\ text = None
    /\ text' = extract_text_with_pdfplumber(pages)
    /\ UNCHANGED <<pages, llm, generated, session, widgets, db, handles, lastLog>>

NextText == ExtractText

SpecText == InitText /\ [][NextText]_vars

\* the number of symbols the first n pages contribute
RECURSIVE Offset(_)
Offset(n) ==
    IF n = 0 THEN 0
    ELSE Offset(n - 1) + (IF pages[n] = None THEN 0 ELSE Len(pages[n].val))

\* C9: the text returned is T_1 ... T_N in page order, a page without text
\* contributing nothing: page i occupies exactly the positions after those of
\* pages 1..i-1, and nothing else is in the result; no pages give "".
C9_PagesInOrder ==
    text # None =>
        /\ text.type = "str"
        /\ Len(text.val) = Offset(Len(pages))
        /\ \A i \in 1..Len(pages) :
              IF pages[i] = None \/ pages[i].val = <<>>
              THEN Offset(i) = Offset(i - 1)
              ELSE SubSeq(text.val, Offset(i - 1) + 1, Offset(i)) = pages[i].val
        /\ (pages = <<>> => text = JStr(<<>>))

C9_Witness ==
    /\ text # None
    /\ Len(pages) = 3
    /\ pages[1] = JStr(<<"b", "c">>)
    /\ pages[2] = None
    /\ pages[3] = JStr(<<"a">>)
    /\ text.val = <<"b", "c", "a">>

(***************************************************************************)
(* SpecGen: generate_mcq_questions applied to every bounded response.      *)
(***************************************************************************)
InitGen ==
    /\ llm \in LlmOutcomes
    /\ generated = NotGenerated
    /\ pages = <<>>
    /\ text = None
    /\ PageIdle

Generate ==
    /\ ~generated.done
    /\ generated' = [done |-> TRUE, value |-> generate_mcq_questions(llm)]
    /\ UNCHANGED <<pages, text, llm, session, widgets, db, handles, lastLog>>

NextGen == Generate

SpecGen == InitGen /\ [][NextGen]_vars

(***************************************************************************)
(* Claims about generate_mcq_questions (checked under SpecGen).            *)
(***************************************************************************)
\* a list of exactly 5 objects, each with a question and an options key
IsQuestionArray(v) ==
    /\ v.type = "list"
    /\ Len(v.items) = RequiredCount
    /\ \A i \in 1..Len(v.items) :
          /\ v.items[i].type = "dict"
          /\ {QuestionKey, OptionsKey} \subseteq Keys(v.items[i])

\* the values of the substrings of s that are, on their own, valid JSON
\* arrays of that shape
ContainedArrays(s) ==
    {JsonLoads(SubSeq(s, i, j)).v :
        <<i, j>> \in {p \in (1..Len(s)) \X (1..Len(s)) :
                        /\ p[1] < p[2]
                        /\ s[p[1]] = "["
                        /\ s[p[2]] = "]"
                        /\ JsonLoads(SubSeq(s, p[1], p[2])).ok
                        /\ IsQuestionArray(JsonLoads(SubSeq(s, p[1], p[2])).v)}}

Answered == generated.done /\ ~llm.raises

\* C1 (as claimed): whenever the response contains a valid JSON array of 5
\* objects with question and options keys, whatever surrounds it and whatever
\* its values are, the generator returns that parsed array.
C1_ReturnsContainedArray ==
    (Answered /\ ContainedArrays(llm.text) # {})
        => generated.value \in ContainedArrays(llm.text)

\* a candidate the claims call acceptable: it parses, has exactly 5 elements
\* and no element lacks question or options
Acceptable(c) ==
    /\ JsonLoads(c).ok
    /\ JsonLoads(c).v.type = "list"
    /\ Len(JsonLoads(c).v.items) = RequiredCount
    /\ \A i \in 1..RequiredCount : HasBothKeys(JsonLoads(c).v.items[i]) = "True"

Candidates == FindAll(llm.text)

\* C2 (as claimed): when no candidate substring is acceptable, the generator
\* returns exactly the 5 placeholder questions, never an empty list.
C2_PlaceholdersWhenNoneAcceptable ==
    (Answered /\ \A k \in 1..Len(Candidates) : ~Acceptable(Candidates[k]))
        => generated.value = Placeholders

\* a candidate that parses but has fewer than 5 elements
TooShort(c) ==
    /\ JsonLoads(c).ok
    /\ JsonLoads(c).v.type = "list"
    /\ Len(JsonLoads(c).v.items) < RequiredCount

\* the first acceptable candidate after position k, else the placeholders
FirstAcceptableAfter(k) ==
    LET later == {m \in (k + 1)..Len(Candidates) : Acceptable(Candidates[m])}
    IN IF later = {} THEN Placeholders
       ELSE JsonLoads(Candidates[CHOOSE m \in later : \A n \in later : m <= n]).v

\* C3 (as claimed): a candidate with fewer than 5 elements is never returned;
\* when the scan reaches it, the result is the first acceptable candidate
\* after it, or the placeholders when there is none.
C3_ShortCandidateSkipped ==
    Answered =>
        \A k \in 1..Len(Candidates) :
            TooShort(Candidates[k]) =>
                /\ generated.value # JsonLoads(Candidates[k]).v
                /\ (\A m \in 1..(k - 1) : ~Acceptable(Candidates[m]))
                      => generated.value = FirstAcceptableAfter(k)

====
